---- MODULE Spec2Model ----
(***************************************************************************)
(* parseProxyResponse (packages/https-proxy-agent/src/parse-proxy-response *)
(* .ts): the reader of a proxy's answer to CONNECT.                        *)
(*                                                                         *)
(* Bytes are integers 0..255, a Buffer and a string are sequences of them  *)
(* (a string holds the char codes of its characters).  The socket is a     *)
(* paused Readable: bytes the proxy has sent and the reader has not yet    *)
(* read sit in socketBuffer; socket.read() hands over all of them.         *)
(***************************************************************************)
EXTENDS Integers, Sequences, FiniteSets, TLC

(***************************************************************************)
(* Bytes and strings of the source text.                                   *)
(***************************************************************************)
CRLF == <<13, 10>>                     \* '\r\n'
CRLFCRLF == <<13, 10, 13, 10>>         \* '\r\n\r\n'
SPACE == <<32>>                        \* ' '
COLON == <<58>>                        \* ':'
\* NaN, the result of a numeric conversion that fails: every number the
\* model converts is >= 0, so -1 stands for it.
NaN == -1

(***************************************************************************)
(* Primitives of the JavaScript runtime the source calls.                  *)
(***************************************************************************)
\* The value of F at e.  TLC evaluates the argument of an operator and the
\* definitions of a LET anew at every mention when it computes ENABLED; a
\* bound variable holds a value, so e is evaluated once here.
Let(e, F(_)) == CHOOSE r \in {F(v) : v \in {e}} : TRUE

\* Buffer.prototype.indexOf / String.prototype.indexOf: the 0-based index of
\* the first occurrence of pat in s, -1 when there is none.
RECURSIVE IndexFrom(_, _, _)
IndexFrom(s, pat, i) ==
    IF i + Len(pat) > Len(s) THEN -1
    ELSE IF SubSeq(s, i + 1, i + Len(pat)) = pat THEN i
    ELSE IndexFrom(s, pat, i + 1)

IndexOf(s, pat) == Let(s, LAMBDA v : IndexFrom(v, pat, 0))

\* Buffer.prototype.toString('ascii'): every byte loses its highest bit.
ToAsciiString(buf) ==
    Let(buf, LAMBDA v : SubSeq([i \in 1..Len(v) |-> v[i] % 128], 1, Len(v)))

\* String.prototype.split(sep), for a non-empty separator.
RECURSIVE Split(_, _)
Split(s, sep) ==
    Let(s, LAMBDA v :
    Let(IndexOf(v, sep), LAMBDA i :
        IF i = -1 THEN <<v>>
        ELSE <<SubSeq(v, 1, i)>> \o Split(SubSeq(v, i + Len(sep) + 1, Len(v)), sep)))

\* Array.prototype.join(sep).
RECURSIVE Join(_, _)
Join(parts, sep) ==
    IF parts = <<>> THEN <<>>
    ELSE IF Len(parts) = 1 THEN parts[1]
    ELSE parts[1] \o sep \o Join(Tail(parts), sep)

\* Array.prototype.slice(n): the elements from 0-based index n on.
SliceFrom(a, n) == SubSeq(a, n + 1, Len(a))

\* String.prototype.toLowerCase on char codes 0..127: only A-Z change.
ToLowerCase(s) ==
    [i \in 1..Len(s) |-> IF s[i] >= 65 /\ s[i] <= 90 THEN s[i] + 32 ELSE s[i]]

\* The white space and line terminators of ECMAScript among char codes
\* 0..127: TAB, LF, VT, FF, CR, SP.
WhiteSpace == {9, 10, 11, 12, 13, 32}

\* String.prototype.trimStart.
RECURSIVE TrimStart(_)
TrimStart(s) ==
    IF s # <<>> /\ s[1] \in WhiteSpace THEN TrimStart(Tail(s)) ELSE s

RECURSIVE TrimEnd(_)
TrimEnd(s) ==
    IF s # <<>> /\ s[Len(s)] \in WhiteSpace
    THEN TrimEnd(SubSeq(s, 1, Len(s) - 1)) ELSE s

IsDigits(s) == \A i \in 1..Len(s) : s[i] >= 48 /\ s[i] <= 57

RECURSIVE DecimalValue(_)
DecimalValue(s) ==
    IF s = <<>> THEN 0
    ELSE 10 * DecimalValue(SubSeq(s, 1, Len(s) - 1)) + (s[Len(s)] - 48)

\* Unary plus on a string (StringToNumber): white space is trimmed, the empty
\* string is 0, a run of decimal digits is its value.  Signs, fractions,
\* exponents, radix prefixes and "Infinity" are not modelled: no status token
\* of the inputs below holds them, and every other text is NaN.
StringToNumber(s) ==
    LET t == TrimEnd(TrimStart(s))
    IN  IF t = <<>> THEN 0
        ELSE IF IsDigits(t) THEN DecimalValue(t)
        ELSE NaN

\* Buffer.concat(list, totalLength): the buffers of list one after the other,
\* cut or zero-filled to totalLength bytes.
RECURSIVE Flatten(_)
Flatten(list) == IF list = <<>> THEN <<>> ELSE Head(list) \o Flatten(Tail(list))

\* A concatenation that puts the newest chunk first.
RECURSIVE NewestFirst(_)
NewestFirst(list) == IF list = <<>> THEN <<>> ELSE NewestFirst(Tail(list)) \o Head(list)
BufferConcatNewestFirst(list, totalLength) ==
    LET all == NewestFirst(list)
    IN  [i \in 1..totalLength |-> IF i <= Len(all) THEN all[i] ELSE 0]

BufferConcat(list, totalLength) ==
    LET all == Flatten(list)
    IN  [i \in 1..totalLength |-> IF i <= Len(all) THEN all[i] ELSE 0]


(***************************************************************************)
(* The headers object (line 77: a plain object literal).  It is kept as    *)
(* the sequence of its own properties in the order Object.keys lists them: *)
(* array-index keys first, ascending, then the other keys in the order     *)
(* they were created.  An entry's value is a string (isArray = FALSE,      *)
(* items = <<the string>>) or an array of strings.                         *)
(***************************************************************************)
\* '__proto__': the one lower-case key a plain object inherits as an accessor.
ProtoKey == <<95, 95, 112, 114, 111, 116, 111, 95, 95>>

\* A canonical array index: the decimal text, without leading zeros, of an
\* integer in 0..2^32-2.  Texts of up to 9 digits are told here; the 10-digit
\* ones are beyond the integers TLC has and beyond the inputs below.
IsArrayIndex(key) ==
    /\ key # <<>>
    /\ IsDigits(key)
    /\ Len(key) = 1 \/ key[1] # 48
    /\ Len(key) <= 9

HasOwn(headers, key) == \E i \in 1..Len(headers) : headers[i].key = key

OwnIndex(headers, key) == CHOOSE i \in 1..Len(headers) : headers[i].key = key

\* typeof headers[key] as lines 92-96 tell it apart: 'string', 'array', or
\* 'other' (undefined, or the object or function found on Object.prototype).
TypeOfCurrent(headers, key) ==
    IF HasOwn(headers, key)
    THEN IF headers[OwnIndex(headers, key)].isArray THEN "array" ELSE "string"
    ELSE "other"

\* Where a new own property is listed: an array index goes before the first
\* greater array index or the first other key, any other key goes last.
InsertAt(headers, key) ==
    IF ~IsArrayIndex(key) THEN Len(headers) + 1
    ELSE LET later == {i \in 1..Len(headers) :
                          \/ ~IsArrayIndex(headers[i].key)
                          \/ DecimalValue(headers[i].key) > DecimalValue(key)}
         IN  IF later = {} THEN Len(headers) + 1
             ELSE CHOOSE i \in later : \A j \in later : i <= j

\* headers[key] = entry (lines 93 and 97).  Assigning to '__proto__' runs the
\* setter inherited from Object.prototype, which ignores a string: no own
\* property is created.
AssignProperty(headers, key, entry) ==
    IF key = ProtoKey THEN headers
    ELSE IF HasOwn(headers, key)
    THEN [headers EXCEPT ![OwnIndex(headers, key)] = entry]
    ELSE LET at == InsertAt(headers, key)
         IN  SubSeq(headers, 1, at - 1) \o <<entry>> \o SubSeq(headers, at, Len(headers))

\* Lines 91-98: the value of one header line joins the headers object.
SetHeader(headers, key, value) ==
    LET current == TypeOfCurrent(headers, key)
    IN  IF current = "string"
        THEN AssignProperty(headers, key,
                [key |-> key, isArray |-> TRUE,
                 items |-> <<headers[OwnIndex(headers, key)].items[1], value>>])
        ELSE IF current = "array"
        THEN [headers EXCEPT ![OwnIndex(headers, key)].items = Append(@, value)]
        ELSE AssignProperty(headers, key,
                [key |-> key, isArray |-> FALSE, items |-> <<value>>])


(***************************************************************************)
(* Lines 66-99 of ondata: what the accumulated buffer decodes to.          *)
(***************************************************************************)
\* A search that stops at the first line break.
EndOfHeadersFirstLineBreak(buffered) == IndexOf(buffered, CRLF)

\* Line 57: buffered.indexOf('\r\n\r\n').
EndOfHeaders(buffered) == IndexOf(buffered, CRLFCRLF)

\* Line 66: buffered.toString('ascii').split('\r\n'), the whole buffer.
HeaderParts(buffered) == Split(ToAsciiString(buffered), CRLF)

\* A reader that takes only a missing first line for "no header".
NoFirstLineOnlyUndefined(firstLine) == FALSE

\* Line 68: !firstLine.
NoFirstLine(firstLine) == firstLine = <<>>

\* A conversion that takes only a run of digits for a number.
StatusCodeDigitsOnly(firstLineParts) ==
    IF Len(firstLineParts) >= 2 /\ firstLineParts[2] # <<>> /\ IsDigits(firstLineParts[2])
    THEN DecimalValue(firstLineParts[2]) ELSE NaN

\* Lines 74-75: +firstLineParts[1]; a missing element is undefined, +undefined
\* is NaN.
StatusCode(firstLineParts) ==
    IF Len(firstLineParts) < 2 THEN NaN ELSE StringToNumber(firstLineParts[2])

\* Line 76: firstLineParts.slice(2).join(' ').
StatusText(firstLineParts) == Join(SliceFrom(firstLineParts, 2), SPACE)

\* Line 89.
HeaderKey(header, firstColon) == ToLowerCase(SubSeq(header, 1, firstColon))

\* A value that is trimmed at both ends.
HeaderValueTrimmed(header, firstColon) ==
    TrimEnd(TrimStart(SliceFrom(header, firstColon + 1)))

\* Line 90.
HeaderValue(header, firstColon) == TrimStart(SliceFrom(header, firstColon + 1))

\* A header loop that passes over a line without a colon.
RECURSIVE HeaderLoopSkipInvalid(_, _)
HeaderLoopSkipInvalid(headerParts, headers) ==
    IF headerParts = <<>>
    THEN [invalid |-> FALSE, header |-> <<>>, headers |-> headers]
    ELSE LET header == Head(headerParts)
             firstColon == IndexOf(header, COLON)
         IN  IF header = <<>> \/ firstColon = -1
             THEN HeaderLoopSkipInvalid(Tail(headerParts), headers)
             ELSE HeaderLoopSkipInvalid(Tail(headerParts),
                             SetHeader(headers, ToLowerCase(SubSeq(header, 1, firstColon)),
                                       TrimStart(SliceFrom(header, firstColon + 1))))

\* Lines 78-99: the loop over the lines after the first.  invalid tells that
\* the loop left through line 83, header is then the line that made it.
RECURSIVE HeaderLoop(_, _)
HeaderLoop(headerParts, headers) ==
    IF headerParts = <<>>
    THEN [invalid |-> FALSE, header |-> <<>>, headers |-> headers]
    ELSE Let(Head(headerParts), LAMBDA header :
         Let(IndexOf(header, COLON), LAMBDA firstColon :
             IF header = <<>>
             THEN HeaderLoop(Tail(headerParts), headers)
             ELSE IF firstColon = -1
             THEN [invalid |-> TRUE, header |-> header, headers |-> headers]
             ELSE Let(SetHeader(headers, HeaderKey(header, firstColon),
                                HeaderValue(header, firstColon)),
                      LAMBDA set : HeaderLoop(Tail(headerParts), set))))

(***************************************************************************)
(* Errors.  An Error is [id, message, header]: id tells one error object    *)
(* from another with the same text, header is the text a template puts in  *)
(* the message between the double quotes.                                  *)
(***************************************************************************)
\* Lines 40-42.
PrematureEndError ==
    [id |-> "new", message |-> "Proxy connection ended before receiving CONNECT response",
     header |-> <<>>]

\* Line 71.
NoHeaderError ==
    [id |-> "new", message |-> "No header received from proxy CONNECT response",
     header |-> <<>>]

\* Lines 84-86.
InvalidHeaderError(header) ==
    [id |-> "new", message |-> "Invalid header from proxy CONNECT response: ",
     header |-> header]

\* An onerror that wraps the error in a new one.
OnErrorReasonWrapped(err) == [id |-> "new", message |-> err.message, header |-> <<>>]

\* Line 49: the argument of reject in onerror.
OnErrorReason(err) == err

\* The value a promise holds before it is fulfilled, the reason before it is
\* rejected.
NoValue ==
    [connect |-> [statusCode |-> NaN, statusText |-> <<>>, headers |-> <<>>],
     buffered |-> <<>>]
NoReason == [id |-> "none", message |-> "", header |-> <<>>]

\* Lines 66-109 as a function of the accumulated buffer: which of the three
\* exits ondata takes and what it hands to resolve or reject.
Decode(buffered) ==
    Let(HeaderParts(buffered), LAMBDA headerParts :
    Let(HeaderLoop(Tail(headerParts), <<>>), LAMBDA loop :
    LET firstLine == Head(headerParts)
        firstLineParts == Split(firstLine, SPACE)
    IN  IF NoFirstLine(firstLine)
        THEN [exit |-> "noheader", reason |-> NoHeaderError, value |-> NoValue]
        ELSE IF loop.invalid
        THEN [exit |-> "invalid", reason |-> InvalidHeaderError(loop.header),
              value |-> NoValue]
        ELSE [exit |-> "resolve", reason |-> NoReason,
              value |-> [connect |-> [statusCode |-> StatusCode(firstLineParts),
                                      statusText |-> StatusText(firstLineParts),
                                      headers |-> loop.headers],
                         buffered |-> buffered]]))


(***************************************************************************)
(* The responses a proxy sends.  A response is described by its parts:     *)
(* status, the tokens of the status line; lines, the header lines, each    *)
(* either a field (name ':' pad value) or raw text; tail, the bytes that   *)
(* follow the blank line.  Wire is the byte sequence they make.            *)
(***************************************************************************)
\* Most header lines of a response.
MaxHeaders == 3
\* Most chunks the proxy's bytes reach the socket in.
MaxPushes == 3

Field(name, pad, value) == [kind |-> "field", name |-> name, pad |-> pad, value |-> value]
Raw(text) == [kind |-> "raw", name |-> text, pad |-> <<>>, value |-> <<>>]

LineText(line) ==
    IF line.kind = "field" THEN line.name \o COLON \o line.pad \o line.value
    ELSE line.name

RECURSIVE LinesText(_)
LinesText(lines) ==
    IF lines = <<>> THEN <<>>
    ELSE LineText(Head(lines)) \o CRLF \o LinesText(Tail(lines))

Wire(r) == Join(r.status, SPACE) \o CRLF \o LinesText(r.lines) \o CRLF \o r.tail

\* "H 20 K k", "H 20", "H K", "H", "H  K" (two spaces: the second token is
\* the empty string), "" .
StatusLines ==
    { <<<<72>>, <<50, 48>>, <<75>>, <<107>>>>,
      <<<<72>>, <<50, 48>>>>,
      <<<<72>>, <<75>>>>,
      <<<<72>>>>,
      <<<<72>>, <<>>, <<75>>>>,
      <<>> }

\* "K: a", "k:b", "k:<TAB> c", "j: a:b ", "J:", "2: a", "__proto__: a", and
\* the line "f", which has no colon.
HeaderLines ==
    { Field(<<75>>, <<32>>, <<97>>),
      Field(<<107>>, <<>>, <<98>>),
      Field(<<107>>, <<9, 32>>, <<99>>),
      Field(<<106>>, <<32>>, <<97, 58, 98, 32>>),
      Field(<<74>>, <<>>, <<>>),
      Field(<<50>>, <<32>>, <<97>>),
      Field(ProtoKey, <<32>>, <<97>>),
      Raw(<<102>>) }

\* Nothing; "f"; and two bytes above 127 that 'ascii' decoding turns into "k:".
Tails == { <<>>, <<102>>, <<235, 186>> }

SeqsUpTo(S, n) == UNION {[1..m -> S] : m \in 0..n}

\* Responses that arrive whole: every status line with at most one header
\* line, and the first status line with up to MaxHeaders header lines.
WholeResponses ==
    { r \in [status : StatusLines, lines : SeqsUpTo(HeaderLines, MaxHeaders), tail : Tails] :
        \/ Len(r.lines) <= 1
        \/ r.status = <<<<72>>, <<50, 48>>, <<75>>, <<107>>>> }

\* Responses that arrive in any chunks: "H 2" or no status line; then nothing,
\* "k:b", "f", or "K: a" and "k:b"; then the blank line; then any tail.
ChunkedResponses ==
    [status : { <<<<72>>, <<50>>>>, <<>> },
     lines : { <<>>, <<Field(<<107>>, <<>>, <<98>>)>>, <<Raw(<<102>>)>>,
               <<Field(<<75>>, <<32>>, <<97>>), Field(<<107>>, <<>>, <<98>>)>> },
     tail : Tails]

\* The errors the socket may report: two error objects with the same text.
StreamErrors ==
    { [id |-> "e1", message |-> "read ECONNRESET", header |-> <<>>],
      [id |-> "e2", message |-> "read ECONNRESET", header |-> <<>>] }

(***************************************************************************)
(* State.                                                                  *)
(***************************************************************************)
VARIABLES
    resp,           \* the response the proxy sends (fixed in a behaviour)
    delivery,       \* "whole": it reaches the socket in one piece; "chunked"
    sent,           \* how many bytes of Wire(resp) have reached the socket
    pushes,         \* in how many chunks
    socketBuffer,   \* bytes in the socket, not yet read
    ended,          \* the socket has emitted 'end'
    streamError,    \* the error the socket has emitted, NoReason before
    destroyed,      \* socket.destroy() was called
    listeners,      \* how many listeners of the reader each event has
    started,        \* parseProxyResponse was called
    buffers,        \* line 22
    buffersLength,  \* line 21
    promise,        \* the promise parseProxyResponse returns
    calls,          \* destroy, resolve and reject calls, in order
    reads           \* how many socket.read() calls the latest step made

vars == <<resp, delivery, sent, pushes, socketBuffer, ended, streamError,
          destroyed, listeners, started, buffers, buffersLength, promise, calls,
          reads>>

env == <<resp, delivery, sent, pushes>>

Init ==
    /\ \/ delivery = "whole" /\ resp \in WholeResponses
       \/ delivery = "chunked" /\ resp \in ChunkedResponses
    /\ sent = 0
    /\ pushes = 0
    /\ socketBuffer = <<>>
    /\ ended = FALSE
    /\ streamError = NoReason
    /\ destroyed = FALSE
    /\ listeners = [end |-> 0, error |-> 0, readable |-> 0]
    /\ started = FALSE
    /\ buffers = <<>>
    /\ buffersLength = 0
    /\ promise = [state |-> "pending", value |-> NoValue, reason |-> NoReason]
    /\ calls = <<>>
    /\ reads = 0

(***************************************************************************)
(* EventEmitter and Promise.                                               *)
(***************************************************************************)
\* socket.on(event, f) and socket.once(event, f).
AddListener(ls, event) == [ls EXCEPT ![event] = @ + 1]

\* socket.removeListener(event, f): one registration of f goes, if there is one.
RemoveListener(ls, event) == [ls EXCEPT ![event] = IF @ > 0 THEN @ - 1 ELSE 0]

\* resolve(value), reject(reason): only a pending promise changes.
Resolve(p, value) ==
    IF p.state = "pending" THEN [state |-> "fulfilled", value |-> value, reason |-> NoReason]
    ELSE p

Reject(p, reason) ==
    IF p.state = "pending" THEN [state |-> "rejected", value |-> NoValue, reason |-> reason]
    ELSE p

(***************************************************************************)
(* The functions of parseProxyResponse.  ls is the reader's listeners at   *)
(* the moment of the call.                                                 *)
(***************************************************************************)
\* A cleanup that leaves the 'end' listener attached.
cleanupWithoutEnd(ls) == RemoveListener(RemoveListener(ls, "error"), "readable")

\* Lines 30-34.
cleanup(ls) ==
    RemoveListener(RemoveListener(RemoveListener(ls, "end"), "error"), "readable")

\* A reader that looks at the newest chunk alone.
BufferedNewestChunk(bufs, len) == bufs[Len(bufs)]

\* Line 56.
Buffered(bufs, len) == BufferConcat(bufs, len)

\* Lines 52-110.  The read() of line 62 finds the socket empty, the read that
\* called ondata has just taken all of it, and so registers for 'readable':
\* that makes two socket.read() calls in the step, the one that brought b and
\* this one.
ondata(b, ls) ==
    LET bufs == Append(buffers, b)
        len == buffersLength + Len(b)
        buffered == Buffered(bufs, len)
        d == Decode(buffered)
    IN  /\ buffers' = bufs
        /\ buffersLength' = len
        /\ IF EndOfHeaders(buffered) = -1
           THEN /\ listeners' = AddListener(ls, "readable")
                /\ reads' = 2
                /\ UNCHANGED <<promise, destroyed, calls>>
           ELSE IF d.exit = "resolve"
           THEN /\ listeners' = cleanup(ls)
                /\ promise' = Resolve(promise, d.value)
                /\ calls' = Append(calls, "resolve")
                /\ reads' = 1
                /\ UNCHANGED destroyed
           ELSE /\ destroyed' = TRUE
                /\ promise' = Reject(promise, d.reason)
                /\ calls' = calls \o <<"destroy", "reject">>
                /\ listeners' = ls
                /\ reads' = 1

\* Lines 24-28.  socket.read() returns all the socket holds, null if nothing.
read(ls) ==
    IF socketBuffer # <<>>
    THEN /\ socketBuffer' = <<>>
         /\ ondata(socketBuffer, ls)
    ELSE /\ listeners' = AddListener(ls, "readable")
         /\ reads' = 1
         /\ UNCHANGED <<socketBuffer, buffers, buffersLength, promise, destroyed, calls>>

\* An onend that detaches the listeners and forgets to reject.
onendWithoutReject ==
    /\ listeners' = RemoveListener(RemoveListener(RemoveListener(listeners, "end"),
                                                   "error"), "readable")
    /\ UNCHANGED <<promise, calls, destroyed>>

\* An onend that also force-closes the socket.
onendDestroying ==
    /\ listeners' = RemoveListener(RemoveListener(RemoveListener(listeners, "end"),
                                                   "error"), "readable")
    /\ destroyed' = TRUE
    /\ promise' = Reject(promise, PrematureEndError)
    /\ calls' = calls \o <<"destroy", "reject">>

\* Lines 36-44.
onend ==
    /\ listeners' = cleanup(listeners)
    /\ promise' = Reject(promise, PrematureEndError)
    /\ calls' = Append(calls, "reject")
    /\ UNCHANGED destroyed

\* Lines 46-50.
onerror(err) ==
    /\ listeners' = cleanup(listeners)
    /\ promise' = Reject(promise, OnErrorReason(err))
    /\ calls' = Append(calls, "reject")
    /\ UNCHANGED destroyed

(***************************************************************************)
(* Actions.                                                                *)
(***************************************************************************)
\* Lines 13-16 and 112-115: the call of parseProxyResponse.
parseProxyResponse ==
    /\ ~started
    /\ started' = TRUE
    /\ read(AddListener(AddListener(listeners, "error"), "end"))
    /\ UNCHANGED <<env, ended, streamError>>

\* The proxy's next bytes reach the socket.
Push ==
    /\ ~ended /\ streamError = NoReason /\ ~destroyed
    /\ sent < Len(Wire(resp))
    /\ pushes < MaxPushes
    /\ \E n \in 1..(Len(Wire(resp)) - sent) :
          /\ delivery = "whole" => n = Len(Wire(resp))
          /\ socketBuffer' = socketBuffer \o SubSeq(Wire(resp), sent + 1, sent + n)
          /\ sent' = sent + n
    /\ pushes' = pushes + 1
    /\ reads' = 0
    /\ UNCHANGED <<resp, delivery, ended, streamError, destroyed, listeners, started,
                   buffers, buffersLength, promise, calls>>

\* A 'readable' that leaves the listener on the socket, as on() would.
ReadableNotOnce ==
    /\ listeners.readable > 0
    /\ read(listeners)
    /\ UNCHANGED <<env, ended, streamError, started>>

\* The socket emits 'readable': the reader's one-shot listener, when there is
\* one, is taken off and read runs.
Readable ==
    /\ listeners.readable > 0
    /\ read(RemoveListener(listeners, "readable"))
    /\ UNCHANGED <<env, ended, streamError, started>>

\* The socket emits 'end', once, when nothing is left in it to read.
End ==
    /\ started /\ ~ended /\ streamError = NoReason
    /\ socketBuffer = <<>>
    /\ ended' = TRUE
    /\ IF listeners.end > 0 THEN onend
       ELSE UNCHANGED <<listeners, promise, calls, destroyed>>
    /\ reads' = 0
    /\ UNCHANGED <<env, socketBuffer, streamError, started, buffers, buffersLength>>

\* The socket emits 'error', once.
Error ==
    /\ started /\ streamError = NoReason
    /\ \E err \in StreamErrors :
          /\ streamError' = err
          /\ IF listeners.error > 0 THEN onerror(err)
             ELSE UNCHANGED <<listeners, promise, calls, destroyed>>
    /\ reads' = 0
    /\ UNCHANGED <<env, socketBuffer, ended, started, buffers, buffersLength>>

Next == parseProxyResponse \/ Push \/ Readable \/ End \/ Error

Spec == Init /\ [][Next]_vars

\* The socket of a live connection, with a response that arrives in chunks
\* of any size: a 'readable' that a listener waits for
\* is delivered (line 27), and a socket whose bytes were all read and that gets
\* no more of them ends (line 113) unless it fails first (line 112).
LiveInit == Init /\ delivery = "chunked"

LiveSpec == LiveInit /\ [][Next]_vars /\ WF_vars(Readable) /\ WF_vars(End)


(***************************************************************************)
(* Properties.                                                             *)
(***************************************************************************)
\* Line 56 on the state: the accumulated buffer.
Accumulated == Buffered(buffers, buffersLength)

TerminatorFound == EndOfHeaders(Accumulated) # -1

Elements(s) == {s[i] : i \in 1..Len(s)}

\* A valid status line: a version, a numeric status code, any status text.
ValidStatus(status) == Len(status) >= 2 /\ status[2] # <<>> /\ IsDigits(status[2])

\* A valid response: a valid status line and header lines that are fields.
ValidResponse(r) ==
    /\ ValidStatus(r.status)
    /\ \A i \in 1..Len(r.lines) : r.lines[i].kind = "field"

\* The reader received the whole response as its first and only chunk.
OneChunk == buffers = <<Wire(resp)>>

\* The lower-cased names of the lines, and whether they differ from each other.
KeyOf(line) == ToLowerCase(line.name)
DistinctNames(lines) ==
    \A i, j \in 1..Len(lines) : KeyOf(lines[i]) = KeyOf(lines[j]) => i = j

\* How many resolve and reject calls were made.
SettleCalls == Cardinality({i \in 1..Len(calls) : calls[i] \in {"resolve", "reject"}})

DestroyedThenRejected ==
    /\ destroyed
    /\ Len(calls) >= 2 /\ calls[1] = "destroy" /\ calls[2] = "reject"

\* C1: a valid response that arrives in one chunk, whatever bytes follow its
\* blank line, resolves, and buffered is the whole input, unchanged.
C1_TrailingBytesKept ==
    (ValidResponse(resp) /\ OneChunk) =>
        /\ promise.state = "fulfilled"
        /\ promise.value.buffered = Wire(resp)

\* C2: the bytes after the first blank line have no part in the outcome: it is
\* the outcome of the accumulated buffer cut right after its first CR-LF-CR-LF.
C2_OnlyHeaderBlockDecides ==
    TerminatorFound =>
        LET head == SubSeq(Accumulated, 1, EndOfHeaders(Accumulated) + 4)
            d == Decode(head)
        IN  /\ (promise.state = "fulfilled") = (d.exit = "resolve")
            /\ (promise.state = "rejected") = (d.exit # "resolve")
            /\ promise.value.connect = d.value.connect

\* C3: a valid response, read to its end in whatever chunks, resolves with the
\* ConnectResponse that the response arriving in one chunk resolves with.
C3_ChunkBoundaryInvariance ==
    (ValidResponse(resp) /\ resp.tail = <<>> /\ Flatten(buffers) = Wire(resp)) =>
        /\ Decode(Wire(resp)).exit = "resolve"
        /\ promise.state = "fulfilled"
        /\ promise.value.connect = Decode(Wire(resp)).value.connect

\* C3's case: a valid response read in three chunks, a chunk ending inside the
\* CR-LF-CR-LF, and resolved.
C3_Witness ==
    /\ ValidResponse(resp) /\ resp.tail = <<>> /\ resp.lines # <<>>
    /\ Flatten(buffers) = Wire(resp)
    /\ Len(buffers) = 3
    /\ Len(buffers[3]) \in 1..3
    /\ promise.state = "fulfilled"

\* C4: a valid response with distinct header names that arrives in one chunk
\* resolves with the status code its second token spells, the status text its
\* further tokens make, and one header per line, in the order of the lines: the
\* lower-cased name mapped to the value.
C4_SingleChunkParse ==
    (ValidResponse(resp) /\ DistinctNames(resp.lines) /\ resp.tail = <<>> /\ OneChunk) =>
        /\ promise.state = "fulfilled"
        /\ promise.value.connect.statusCode = DecimalValue(resp.status[2])
        /\ promise.value.connect.statusText = Join(SubSeq(resp.status, 3, Len(resp.status)), SPACE)
        /\ promise.value.connect.headers =
              [i \in 1..Len(resp.lines) |->
                  [key |-> KeyOf(resp.lines[i]), isArray |-> FALSE,
                   items |-> <<resp.lines[i].value>>]]

\* C5: every name of a valid response that arrived in one chunk is a header
\* that holds the values of the lines of that name, all of them, in the order
\* of the lines: as one string if there is one, as a list if there are more.
C5_RepeatedNamesAggregate ==
    (ValidResponse(resp) /\ resp.tail = <<>> /\ OneChunk) =>
        /\ promise.state = "fulfilled"
        /\ \A i \in 1..Len(resp.lines) :
              LET key == KeyOf(resp.lines[i])
                  headers == promise.value.connect.headers
                  same == SelectSeq(resp.lines, LAMBDA l : KeyOf(l) = key)
              IN  /\ HasOwn(headers, key)
                  /\ headers[OwnIndex(headers, key)].items =
                        [n \in 1..Len(same) |-> same[n].value]
                  /\ headers[OwnIndex(headers, key)].isArray = (Len(same) >= 2)

\* C6: 'end' while the promise is pending rejects it with the error whose
\* message is "Proxy connection ended before receiving CONNECT response".
C6_PrematureEnd ==
    [][(started /\ promise.state = "pending" /\ ~ended /\ ended') =>
          /\ promise'.state = "rejected"
          /\ promise'.reason.id = "new"
          /\ promise'.reason.message =
                "Proxy connection ended before receiving CONNECT response"]_vars

\* C6's case: the socket ended after a part of a response, with no blank line,
\* had been read, and the promise is rejected with that message.
C6_Witness ==
    /\ ended /\ buffers # <<>> /\ ~TerminatorFound
    /\ promise.state = "rejected"
    /\ promise.reason.message = "Proxy connection ended before receiving CONNECT response"

\* C7: 'error' while the promise is pending rejects it with the very error the
\* socket reported.
C7_StreamError ==
    [][(started /\ promise.state = "pending" /\ streamError = NoReason
        /\ streamError' # NoReason) =>
          /\ promise'.state = "rejected"
          /\ promise'.reason = streamError']_vars

\* C7's case: the socket reported an error after two chunks without a blank
\* line had been read, and the promise is rejected with it.
C7_Witness ==
    /\ Len(buffers) = 2 /\ ~TerminatorFound
    /\ streamError \in StreamErrors
    /\ promise.state = "rejected"
    /\ promise.reason = streamError

\* The lines of a buffer before its first CR-LF-CR-LF.
BlockLines(buffered) ==
    Split(ToAsciiString(SubSeq(buffered, 1, EndOfHeaders(buffered))), CRLF)

\* Among the lines after the first, the non-empty ones without a colon.
Colonless(lines) ==
    {i \in 2..Len(lines) : lines[i] # <<>> /\ 58 \notin Elements(lines[i])}

\* The socket was destroyed, then the promise rejected with the invalid-header
\* error that quotes the first of the lines without a colon, and with no value.
RejectedAsInvalidHeader(lines) ==
    LET without == Colonless(lines)
    IN  /\ DestroyedThenRejected
        /\ promise.state = "rejected"
        /\ promise.value = NoValue
        /\ promise.reason.message = "Invalid header from proxy CONNECT response: "
        /\ promise.reason.header =
              lines[CHOOSE i \in without : \A j \in without : i <= j]

\* C8 as written: once the blank line is there, a non-empty line between the
\* first line and the blank line that has no colon makes the reader destroy
\* the socket and then reject with the invalid-header error that quotes it.
C8_AnyColonlessLine ==
    LET acc == Accumulated
        lines == BlockLines(acc)
    IN  (EndOfHeaders(acc) # -1 /\ Colonless(lines) # {}) =>
            RejectedAsInvalidHeader(lines)

\* C8, amended: the same, when the first line is not empty; the line quoted is
\* the first one without a colon.
C8_MalformedHeaderLine ==
    LET acc == Accumulated
        lines == BlockLines(acc)
    IN  (EndOfHeaders(acc) # -1 /\ lines[1] # <<>> /\ Colonless(lines) # {}) =>
            RejectedAsInvalidHeader(lines)

\* C8's case: a valid header line, then the line "f": rejected, "f" quoted.
C8_Witness ==
    /\ Len(resp.lines) >= 2
    /\ resp.lines[1].kind = "field" /\ resp.lines[2].kind = "raw"
    /\ TerminatorFound
    /\ RejectedAsInvalidHeader(BlockLines(Accumulated))
    /\ promise.reason.header = <<102>>

\* C9: once the blank line is there, an accumulated buffer that begins with
\* CR LF makes the reader destroy the socket and then reject with "No header
\* received from proxy CONNECT response".
C9_MissingStatusLine ==
    (TerminatorFound /\ SubSeq(Accumulated, 1, 2) = CRLF) =>
        /\ DestroyedThenRejected
        /\ promise.state = "rejected"
        /\ promise.reason.id = "new"
        /\ promise.reason.message = "No header received from proxy CONNECT response"

\* C9's case: the input is CR LF CR LF, read in two chunks.
C9_Witness ==
    /\ Accumulated = CRLFCRLF
    /\ Len(buffers) = 2
    /\ DestroyedThenRejected
    /\ promise.reason.message = "No header received from proxy CONNECT response"

\* C10: a settled promise means no listener of the reader is left on the
\* socket and one settle call was made, no more.
C10_TerminalAbsorbing ==
    promise.state # "pending" =>
        /\ listeners = [end |-> 0, error |-> 0, readable |-> 0]
        /\ SettleCalls = 1

\* The promise is rejected with one of the two errors ondata makes.
StructuralFailure ==
    /\ promise.state = "rejected"
    /\ promise.reason.id = "new"
    /\ promise.reason.message \in
          {"No header received from proxy CONNECT response",
           "Invalid header from proxy CONNECT response: "}

\* C11: socket.destroy() is called only in runs that end in the no-header or
\* the invalid-header rejection: a run whose promise is fulfilled, or rejected
\* with the premature-end error or with the socket's error, has no destroy call.
C11_DestroyOnlyOnStructuralFailure ==
    (destroyed \/ \E i \in 1..Len(calls) : calls[i] = "destroy") => StructuralFailure

\* C11's cases: a fulfilled run, a premature-end run and a stream-error run,
\* each past its end with the socket not destroyed.  The one here is the
\* premature end after a chunk was read.
C11_Witness ==
    /\ promise.state = "rejected"
    /\ promise.reason = PrematureEndError
    /\ buffers # <<>>
    /\ ended
    /\ ~destroyed

\* The sum of the lengths of the chunks.
RECURSIVE SumOfLengths(_)
SumOfLengths(chunks) ==
    IF chunks = <<>> THEN 0 ELSE Len(Head(chunks)) + SumOfLengths(Tail(chunks))

\* C13: the accumulated buffer is, byte for byte, the chunks read so far one
\* after the other in the order they were read, the tracked length is the sum
\* of their lengths, and the chunks read followed by what the socket still
\* holds are the bytes the proxy has sent: nothing is lost, doubled, reordered
\* or changed.
C13_AccumulatedIsConcatenation ==
    LET wire == Wire(resp)
        accumulated == Accumulated
    IN  /\ Len(accumulated) = buffersLength
        /\ buffersLength = SumOfLengths(buffers)
        /\ \A i \in 1..Len(buffers) : \A j \in 1..Len(buffers[i]) :
              accumulated[SumOfLengths(SubSeq(buffers, 1, i - 1)) + j] = buffers[i][j]
        /\ accumulated \o socketBuffer = SubSeq(wire, 1, sent)

\* C13's case: the reader is still accumulating and has read three chunks that
\* are not all alike.
C13_Witness ==
    /\ promise.state = "pending"
    /\ Len(buffers) = 3
    /\ buffers[1] # buffers[3]
    /\ buffersLength >= 4

\* s is the beginning of t.
IsPrefix(s, t) == Len(s) <= Len(t) /\ s = SubSeq(t, 1, Len(s))

\* C14: when the promise is fulfilled no readable, end or error listener of
\* the reader is left on the socket and the value's buffered is the whole
\* accumulated buffer, the bytes sent less those still in the socket; from then
\* on the reader reads nothing: its chunks, listeners and promise stay as they
\* are and what arrives later stays in the socket.
C14_ResolveDetachesAndStopsReading ==
    /\ [](promise.state = "fulfilled" =>
            /\ listeners = [end |-> 0, error |-> 0, readable |-> 0]
            /\ promise.value.buffered = Accumulated
            /\ promise.value.buffered \o socketBuffer = SubSeq(Wire(resp), 1, sent))
    /\ [][promise.state = "fulfilled" =>
            /\ reads' = 0
            /\ buffers' = buffers /\ buffersLength' = buffersLength
            /\ listeners' = listeners
            /\ promise' = promise
            /\ IsPrefix(socketBuffer, socketBuffer')]_vars

\* C14's case: the promise was fulfilled from two chunks or more, and bytes
\* that came after it are in the socket.
C14_Witness ==
    /\ promise.state = "fulfilled"
    /\ Len(buffers) >= 2
    /\ socketBuffer # <<>>
    /\ listeners = [end |-> 0, error |-> 0, readable |-> 0]

\* The chunks hold CR LF CR LF somewhere in their concatenation.
HoldsTerminator(chunks) == IndexOf(Flatten(chunks), <<13, 10, 13, 10>>) # -1

\* C15: the reader decodes at the first chunk that brings CR LF CR LF into the
\* accumulated buffer and at no other: the promise is fulfilled or rejected
\* with a no-header or invalid-header error exactly when the chunks read hold
\* the terminator, the chunks before the last one then do not hold it, and a
\* reader that waits for more bytes has no terminator in what it has read.
C15_DecodeAtFirstTerminator ==
    /\ HoldsTerminator(buffers) <=> (promise.state = "fulfilled" \/ StructuralFailure)
    /\ HoldsTerminator(buffers) => ~HoldsTerminator(SubSeq(buffers, 1, Len(buffers) - 1))
    /\ (started /\ promise.state = "pending") => ~HoldsTerminator(buffers)

\* C15's case: the terminator came in pieces, no chunk holds it alone, and
\* the reader decoded at the chunk that completed it.
C15_Witness ==
    /\ promise.state # "pending"
    /\ Len(buffers) >= 2
    /\ HoldsTerminator(buffers)
    /\ \A i \in 1..Len(buffers) : ~HoldsTerminator(<<buffers[i]>>)

\* The header lines of the response are all fields, name ':' pad value, and
\* its status line is not empty.
FieldsOnly(r) ==
    /\ Join(r.status, SPACE) # <<>>
    /\ \A i \in 1..Len(r.lines) : r.lines[i].kind = "field"

\* C16: a header line is cut at its first colon and nowhere else.  The key is
\* the text before it in lower case and the value is all the text after it
\* less the white space it starts with, later colons and white space at the
\* end included; a line that ends at its colon has the empty value and is no
\* reason to reject.  So a response of field lines with nothing after the
\* blank line is fulfilled once read, and the header of every key (but the
\* key __proto__, which an object literal does not store) holds the values of
\* the lines of that key in the order of the lines.
C16_SplitAtFirstColon ==
    /\ \A i \in 1..Len(resp.lines) :
          LET line == resp.lines[i]
              header == LineText(line)
              firstColon == IndexOf(header, COLON)
          IN  line.kind = "field" =>
                /\ firstColon = Len(line.name)
                /\ HeaderKey(header, firstColon) = ToLowerCase(line.name)
                /\ HeaderValue(header, firstColon) = line.value
    /\ (FieldsOnly(resp) /\ resp.tail = <<>> /\ HoldsTerminator(buffers)) =>
          /\ promise.state = "fulfilled"
          /\ \A i \in 1..Len(resp.lines) :
                LET key == KeyOf(resp.lines[i])
                    headers == promise.value.connect.headers
                    same == SelectSeq(resp.lines, LAMBDA l : KeyOf(l) = key)
                IN  key # ProtoKey =>
                      /\ HasOwn(headers, key)
                      /\ headers[OwnIndex(headers, key)].items =
                            [n \in 1..Len(same) |-> same[n].value]

\* C16's case: the reader decoded "j: a:b " and "J:" and the header j is the
\* list of "a:b " and the empty string.
C16_Witness ==
    /\ promise.state = "fulfilled"
    /\ LET headers == promise.value.connect.headers
       IN  /\ HasOwn(headers, <<106>>)
           /\ headers[OwnIndex(headers, <<106>>)].items = <<<<97, 58, 98, 32>>, <<>>>>

\* What C17 holds of a response read to its blank line, given what the
\* conversion of the second token of the status line is to yield.
StatusLineResolves(code) ==
    (FieldsOnly(resp) /\ resp.tail = <<>> /\ HoldsTerminator(buffers)) =>
        /\ promise.state = "fulfilled"
        /\ Len(resp.status) < 3 => promise.value.connect.statusText = <<>>
        /\ promise.value.connect.statusCode = code

ReadsOnlyWhenDue ==
    /\ reads' \in 0..2
    /\ (reads' >= 1) => (~started \/ listeners.readable = 1)
    /\ (reads' = 2) => (/\ Len(buffers') = Len(buffers) + 1
                        /\ ~HoldsTerminator(buffers')
                        /\ promise'.state = "pending")
    /\ (reads' = 1 /\ buffers' # buffers) => HoldsTerminator(buffers')

\* C18: a reader that was started and has not settled, seen between two
\* steps, has one 'end', one 'error' and one one-shot 'readable' listener on
\* the socket, and never has two 'readable' listeners.  It calls socket.read()
\* only when it is started or when 'readable' is delivered to its listener,
\* and once more right after a chunk that leaves the accumulated buffer
\* without terminator: never in a loop.
C18_ListenersWhileAccumulating ==
    /\ []((started /\ promise.state = "pending") =>
             listeners = [end |-> 1, error |-> 1, readable |-> 1])
    /\ [](listeners.readable <= 1)
    /\ [][ReadsOnlyWhenDue]_vars

\* C18's case: the reader took a chunk without terminator, read again, found
\* the socket empty and waits with its three listeners.
C18_Witness ==
    /\ started /\ promise.state = "pending"
    /\ Len(buffers) = 2
    /\ reads = 2
    /\ listeners = [end |-> 1, error |-> 1, readable |-> 1]

\* The promise has one outcome: a value and no reason, or a reason and no value.
Settled ==
    \/ promise.state = "fulfilled" /\ promise.value # NoValue /\ promise.reason = NoReason
    \/ promise.state = "rejected" /\ promise.value = NoValue /\ promise.reason # NoReason

\* C12: on a socket that delivers its notifications and in the end hands over
\* the terminator, ends or fails, a reader that was started settles: its
\* promise gets one outcome, a whole value or a failure, and keeps it; it does
\* not wait for ever.
C12_EventuallySettles ==
    /\ [](started => <>Settled)
    /\ [](promise.state = "pending" \/ Settled)
    /\ [][promise.state # "pending" => promise' = promise]_vars

\* C12's case: the reader waited, took two chunks or more and settled.
C12_Witness ==
    /\ Settled
    /\ Len(buffers) >= 2
    /\ pushes >= 2

====
